---- MODULE Spec2Model ----
(***************************************************************************)
(* A model of plugin.go of protoc-gen-doc: ParseOptions (the --doc_opt     *)
(* parameter grammar), excludeUnwantedProtos, groupProtosByDirectory and   *)
(* Plugin.Generate.                                                        *)
(*                                                                         *)
(* Go strings are modelled as sequences of one-character strings, so that  *)
(* splitting, prefix tests, base names and regular expressions are         *)
(* computed character by character as the Go library computes them.        *)
(***************************************************************************)
EXTENDS Integers, Sequences, FiniteSets, TLC

VARIABLES
    parameter,   \* req.GetParameter(): the --doc_opt string
    protoFiles,  \* the names of the descriptors of the request, in order
    pc,          \* position of the current run of Generate
    params,      \* ParseOptions' params once the exclude part is cut off
    options,     \* *PluginOptions returned by ParseOptions
    err,         \* the error Generate returns ("" is nil)
    result,      \* the descriptors left by excludeUnwantedProtos
    customTemplate, \* the text of the custom template ("" when none)
    fdsGroup,    \* the map built by groupProtosByDirectory
    pending,     \* keys of fdsGroup the range loop has not visited yet
    resp,        \* resp.File of the current run
    run,         \* 1 for the first run on the request, 2 for the second
    firstResp    \* resp.File returned by the first run

vars == <<parameter, protoFiles, pc, params, options, err, result, customTemplate,
          fdsGroup, pending, resp, run, firstResp>>

(***************************************************************************)
(* Bounds of the model.                                                    *)
(***************************************************************************)
MaxParts == 4    \* colon-separated parts of a generated parameter
MaxFields == 4   \* comma-separated fields of a generated main spec
MaxFiles == 3    \* descriptors in a request

(***************************************************************************)
(* Strings.                                                                *)
(***************************************************************************)
\* The ASCII characters with codes 40 to 122, in code order (code 96, the
\* backquote, is written "backquote").
AsciiTable ==
    << "(", ")", "*", "+", ",", "-", ".", "/",
       "0", "1", "2", "3", "4", "5", "6", "7", "8", "9",
       ":", ";", "<", "=", ">", "?", "@",
       "A", "B", "C", "D", "E", "F", "G", "H", "I", "J", "K", "L", "M",
       "N", "O", "P", "Q", "R", "S", "T", "U", "V", "W", "X", "Y", "Z",
       "[", "\\", "]", "^", "_", "backquote",
       "a", "b", "c", "d", "e", "f", "g", "h", "i", "j", "k", "l", "m",
       "n", "o", "p", "q", "r", "s", "t", "u", "v", "w", "x", "y", "z" >>

\* The character code of c.
Code(c) == 39 + (CHOOSE i \in 1..Len(AsciiTable) : AsciiTable[i] = c)

\* c is in the character class range [lo-hi].
InRange(c, lo, hi) == Code(lo) <= Code(c) /\ Code(c) <= Code(hi)

IsAlnum(c) ==
    InRange(c, "0", "9") \/ InRange(c, "A", "Z") \/ InRange(c, "a", "z")

\* strings.Contains(s, c) for a one-character c.
Contains(s, c) == \E i \in 1..Len(s) : s[i] = c

\* strings.HasPrefix(s, c) for a one-character c.
HasPrefix(s, c) == Len(s) > 0 /\ s[1] = c

\* The index of the first c in s, 0 when there is none.
IndexOf(s, c) ==
    IF Contains(s, c) THEN CHOOSE i \in 1..Len(s) :
                               s[i] = c /\ \A j \in 1..(i - 1) : s[j] # c
    ELSE 0

\* The index of the last c in s, 0 when there is none.
LastIndexOf(s, c) ==
    IF Contains(s, c) THEN CHOOSE i \in 1..Len(s) :
                               s[i] = c /\ \A j \in (i + 1)..Len(s) : s[j] # c
    ELSE 0

\* strings.Split(s, sep) for a one-character sep: always at least one part.
RECURSIVE Split(_, _)
Split(s, sep) ==
    LET i == IndexOf(s, sep) IN
    IF i = 0 THEN << s >>
    ELSE << SubSeq(s, 1, i - 1) >> \o Split(SubSeq(s, i + 1, Len(s)), sep)

\* strings.Join(parts, sep).
RECURSIVE JoinWith(_, _)
JoinWith(parts, sep) ==
    IF Len(parts) = 0 THEN << >>
    ELSE IF Len(parts) = 1 THEN parts[1]
    ELSE parts[1] \o << sep >> \o JoinWith(Tail(parts), sep)

(***************************************************************************)
(* Library functions the plugin calls (Go on a Unix build: the path        *)
(* separator of path and path/filepath is the slash).                      *)
(***************************************************************************)
\* path.Base: the last element of p, trailing slashes removed first.
StripTrailingSlashes(p) ==
    LET keep == { i \in 1..Len(p) : p[i] # "/" } IN
    IF keep = {} THEN << >>
    ELSE SubSeq(p, 1, CHOOSE i \in keep : \A j \in keep : j <= i)

Base(p) ==
    IF p = << >> THEN << "." >>
    ELSE LET q == StripTrailingSlashes(p)
             r == SubSeq(q, LastIndexOf(q, "/") + 1, Len(q))
         IN IF r = << >> THEN << "/" >> ELSE r

\* filepath.Split: the directory part of a name, up to and including the
\* final separator (empty when the name has no separator).
SplitDir(name) == SubSeq(name, 1, LastIndexOf(name, "/"))

\* filepath.Clean: the components of p with empty and "." components
\* dropped and ".." components resolved.
RECURSIVE CleanComponents(_, _, _)
CleanComponents(comps, out, rooted) ==
    IF Len(comps) = 0 THEN out
    ELSE LET c == Head(comps) IN
         CleanComponents(Tail(comps),
             IF c = << >> \/ c = << "." >> THEN out
             ELSE IF c = << ".", "." >>
                  THEN IF Len(out) > 0 /\ out[Len(out)] # << ".", "." >>
                       THEN SubSeq(out, 1, Len(out) - 1)
                       ELSE IF rooted THEN out ELSE Append(out, c)
             ELSE Append(out, c),
             rooted)

Clean(p) ==
    IF p = << >> THEN << "." >>
    ELSE LET rooted == p[1] = "/"
             body == JoinWith(CleanComponents(Split(p, "/"), << >>, rooted), "/")
         IN IF rooted THEN << "/" >> \o body
            ELSE IF body = << >> THEN << "." >> ELSE body

\* filepath.Join(dir, file).
Join(dir, file) ==
    IF dir # << >> THEN Clean(dir \o << "/" >> \o file)
    ELSE IF file # << >> THEN Clean(file)
    ELSE << >>

(***************************************************************************)
(* regexp.Compile and Regexp.MatchString, for patterns written with        *)
(* literal characters, the any-character dot, the opening parenthesis and  *)
(* the backslash escapes \t, \d, \w, escaped punctuation and the letters   *)
(* that are no escape.  A compiled pattern is a sequence of atoms: a       *)
(* one-character string that only matches itself, or "ANY", "DIGIT",       *)
(* "WORD".                                                                 *)
(***************************************************************************)
\* The letters x for which \x is no escape sequence of the syntax.
InvalidEscapeLetters ==
    { "c", "e", "g", "h", "i", "j", "k", "l", "m", "o", "q", "u", "y" }

RECURSIVE CompileFrom(_, _)
CompileFrom(p, atoms) ==
    IF Len(p) = 0 THEN [ok |-> TRUE, atoms |-> atoms]
    ELSE IF p[1] = "("
         THEN [ok |-> FALSE, atoms |-> << >>]      \* missing closing )
    ELSE IF p[1] = "\\"
         THEN IF Len(p) = 1
              THEN [ok |-> FALSE, atoms |-> << >>] \* trailing backslash
              ELSE IF p[2] \in InvalidEscapeLetters
                   THEN [ok |-> FALSE, atoms |-> << >>] \* invalid escape
              ELSE CompileFrom(SubSeq(p, 3, Len(p)),
                       Append(atoms, CASE p[2] = "t" -> "\t"
                                       [] p[2] = "d" -> "DIGIT"
                                       [] p[2] = "w" -> "WORD"
                                       [] OTHER -> p[2]))
    ELSE IF p[1] = "."
         THEN CompileFrom(Tail(p), Append(atoms, "ANY"))
    ELSE CompileFrom(Tail(p), Append(atoms, p[1]))

\* regexp.Compile(pattern).
Compile(pattern) == CompileFrom(pattern, << >>)

AtomMatches(a, c) ==
    CASE a = "ANY" -> TRUE
      [] a = "DIGIT" -> InRange(c, "0", "9")
      [] a = "WORD" -> IsAlnum(c) \/ c = "_"
      [] OTHER -> a = c

\* Regexp.MatchString: an unanchored match somewhere in name.
MatchString(atoms, name) ==
    \E off \in 0..(Len(name) - Len(atoms)) :
        \A i \in 1..Len(atoms) : AtomMatches(atoms[i], name[off + i])

(***************************************************************************)
(* ParseOptions.                                                           *)
(***************************************************************************)
IndexHtml == << "i", "n", "d", "e", "x", ".", "h", "t", "m", "l" >>
SourceRelativeToken ==
    << "s", "o", "u", "r", "c", "e", "_", "r", "e", "l", "a", "t", "i", "v", "e" >>
DefaultToken == << "d", "e", "f", "a", "u", "l", "t" >>

\* A mutant of DefaultOptions: per-source-directory grouping by default.
DefaultOptionsSourceRelative ==
    [ Type            |-> "RenderTypeHTML",
      TemplateFile    |-> << >>,
      OutputFile      |-> IndexHtml,
      ExcludePatterns |-> << >>,
      SourceRelative  |-> TRUE ]

\* The options ParseOptions starts from.
DefaultOptions ==
    [ Type            |-> "RenderTypeHTML",
      TemplateFile    |-> << >>,
      OutputFile      |-> IndexHtml,
      ExcludePatterns |-> << >>,
      SourceRelative  |-> FALSE ]

\* The nil *PluginOptions returned with an error.
NilOptions == "nil"

\* NewRenderType: the built-in renderer a name selects, "" when the name is
\* not recognized (NewRenderType then returns an error).
NewRenderType(name) ==
    CASE name = << "d", "o", "c", "b", "o", "o", "k" >> -> "RenderTypeDocBook"
      [] name = << "h", "t", "m", "l" >> -> "RenderTypeHTML"
      [] name = << "j", "s", "o", "n" >> -> "RenderTypeJSON"
      [] name = << "m", "a", "r", "k", "d", "o", "w", "n" >> -> "RenderTypeMarkdown"
      [] OTHER -> ""

\* regexp.MatchString("(?:^|,)[a-zA-z]$", first): first ends with a character
\* of the class [a-zA-z] that is at the start of first or follows a comma.
DriveLetterMatches(first) ==
    /\ Len(first) >= 1
    /\ \/ InRange(first[Len(first)], "a", "z")
       \/ InRange(first[Len(first)], "A", "z")
    /\ Len(first) = 1 \/ first[Len(first) - 1] = ","

winPathHeuristic(first, second) ==
    IF HasPrefix(second, "\\") THEN DriveLetterMatches(first) ELSE FALSE

\* The first half of ParseOptions: the parameter split into the main spec
\* (params) and the text of the exclude patterns (excludePart).
SplitExclude(param) ==
    IF Contains(param, ":")
    THEN LET parts == Split(param, ":") IN
         IF winPathHeuristic(parts[1], parts[2])
         THEN LET joined == parts[1] \o << ":" >> \o parts[2] IN
              IF Len(parts) > 2
              THEN IF winPathHeuristic(joined, parts[3])
                   THEN [ params      |-> joined \o << ":" >> \o parts[3],
                          excludePart |-> IF Len(parts) > 3 THEN parts[4]
                                          ELSE << >> ]
                   ELSE [ params |-> joined, excludePart |-> parts[3] ]
              ELSE [ params |-> joined, excludePart |-> << >> ]
         ELSE [ params |-> parts[1], excludePart |-> parts[2] ]
    ELSE [ params |-> param, excludePart |-> << >> ]

\* The loop compiling the patterns: it stops at the first pattern that does
\* not compile.
RECURSIVE CompileAll(_, _)
CompileAll(patterns, done) ==
    IF Len(patterns) = 0 THEN [ err |-> "", patterns |-> done ]
    ELSE LET r == Compile(Head(patterns)) IN
         IF ~r.ok THEN [ err |-> "RegexpError", patterns |-> << >> ]
         ELSE CompileAll(Tail(patterns),
                  Append(done, [ expr |-> Head(patterns), atoms |-> r.atoms ]))

CompilePatterns(excludePart) ==
    IF Len(excludePart) > 0 THEN CompileAll(Split(excludePart, ","), << >>)
    ELSE [ err |-> "", patterns |-> << >> ]

\* A mutant of FieldCountInvalid: the upper limit is not checked.
FieldCountInvalidNoUpperLimit(parts) == Len(parts) < 2

\* len(parts) < 2 || len(parts) > 3
FieldCountInvalid(parts) == Len(parts) < 2 \/ Len(parts) > 3

\* The switch on parts[2]: TRUE when it reaches its default case.
ModeInvalid(parts) ==
    Len(parts) > 2 /\ parts[3] # SourceRelativeToken /\ parts[3] # DefaultToken

\* options.SourceRelative after the switch and the assignment that follows.
SourceRelativeOf(parts) == Len(parts) > 2 /\ parts[3] = SourceRelativeToken

\* A mutant of ResolveRenderer: the template file is not reset when the
\* first field names a renderer.
ResolveRendererKeepsTemplate(opts) ==
    LET renderType == NewRenderType(opts.TemplateFile) IN
    IF renderType # "" THEN [ opts EXCEPT !.Type = renderType ] ELSE opts

\* The end of ParseOptions: the first field is a renderer name or, failing
\* that, stays the template file.
ResolveRenderer(opts) ==
    LET renderType == NewRenderType(opts.TemplateFile) IN
    IF renderType # ""
    THEN [ opts EXCEPT !.Type = renderType, !.TemplateFile = << >> ]
    ELSE opts

\* The second half of ParseOptions, on the main spec.
ParseMainSpec(mainSpec, opts) ==
    IF mainSpec = << >> THEN [ err |-> "", options |-> opts ]
    ELSE IF ~Contains(mainSpec, ",")
         THEN [ err |-> "InvalidParameter", options |-> NilOptions ]
    ELSE LET parts == Split(mainSpec, ",") IN
         IF FieldCountInvalid(parts)
         THEN [ err |-> "InvalidParameter", options |-> NilOptions ]
         ELSE IF ModeInvalid(parts)
         THEN [ err |-> "InvalidParameter", options |-> NilOptions ]
         ELSE [ err     |-> "",
                options |-> ResolveRenderer(
                    [ opts EXCEPT !.TemplateFile = parts[1],
                                  !.OutputFile = Base(parts[2]),
                                  !.SourceRelative = SourceRelativeOf(parts) ]) ]

ParseOptions(param) ==
    LET split == SplitExclude(param)
        compiled == CompilePatterns(split.excludePart)
    IN  IF compiled.err # ""
        THEN [ err |-> compiled.err, options |-> NilOptions ]
        ELSE ParseMainSpec(split.params,
                 [ DefaultOptions EXCEPT !.ExcludePatterns = compiled.patterns ])

(***************************************************************************)
(* excludeUnwantedProtos and groupProtosByDirectory.  A descriptor is a    *)
(* record [id, name]: id is its position in the request, name is what      *)
(* GetName returns.                                                        *)
(***************************************************************************)
\* The inner loop: TRUE when it reaches "continue OUTER".
RECURSIVE SomePatternMatches(_, _)
SomePatternMatches(excludePatterns, d) ==
    IF Len(excludePatterns) = 0 THEN FALSE
    ELSE IF MatchString(Head(excludePatterns).atoms, d.name) THEN TRUE
    ELSE SomePatternMatches(Tail(excludePatterns), d)

RECURSIVE ExcludeLoop(_, _, _)
ExcludeLoop(fds, excludePatterns, descs) ==
    IF Len(fds) = 0 THEN descs
    ELSE ExcludeLoop(Tail(fds), excludePatterns,
             IF SomePatternMatches(excludePatterns, Head(fds)) THEN descs
             ELSE Append(descs, Head(fds)))

\* A mutant of excludeUnwantedProtos: only the first pattern is tried.
excludeByFirstPatternOnly(fds, excludePatterns) ==
    ExcludeLoop(fds,
                IF Len(excludePatterns) = 0 THEN << >>
                ELSE << Head(excludePatterns) >>,
                << >>)

excludeUnwantedProtos(fds, excludePatterns) ==
    ExcludeLoop(fds, excludePatterns, << >>)

\* A mutant of GroupDir: an empty directory is not replaced by "./".
GroupDirNoSentinel(fd, sourceRelative) ==
    IF sourceRelative THEN SplitDir(fd.name) ELSE << >>

\* The key of a descriptor in the map of groupProtosByDirectory.
GroupDir(fd, sourceRelative) ==
    LET dir == IF sourceRelative THEN SplitDir(fd.name) ELSE << >> IN
    IF dir = << >> THEN << ".", "/" >> ELSE dir

RECURSIVE GroupLoop(_, _, _)
GroupLoop(fds, sourceRelative, group) ==
    IF Len(fds) = 0 THEN group
    ELSE LET fd == Head(fds)
             dir == GroupDir(fd, sourceRelative)
             old == IF dir \in DOMAIN group THEN group[dir] ELSE << >>
         IN GroupLoop(Tail(fds), sourceRelative,
                [ k \in DOMAIN group \cup { dir } |->
                    IF k = dir THEN Append(old, fd) ELSE group[k] ])

groupProtosByDirectory(fds, sourceRelative) ==
    GroupLoop(fds, sourceRelative, << >>)

(***************************************************************************)
(* The collaborators of Generate.                                          *)
(***************************************************************************)
\* protokit.ParseCodeGenRequest: one descriptor per file of the request.
ParseCodeGenRequest(names) ==
    [ i \in 1..Len(names) |-> [ id |-> i, name |-> names[i] ] ]

\* ioutil.ReadFile of the template file, when it can be read.
FileData(templateFile) == << "data of", templateFile >>

\* RenderTemplate(NewTemplate(fds)): the rendered document is a function of
\* the renderer kind, the descriptors and the custom template.
RenderTemplate(kind, fds, inputTemplate) ==
    [ kind |-> kind, fds |-> fds, template |-> inputTemplate ]

(***************************************************************************)
(* The requests the model runs.                                            *)
(***************************************************************************)
\* The texts between the colons of a generated parameter.
PartSet ==
    { << >>,
      << "C" >>,
      << "_" >>,
      << "1" >>,
      << "\\", "t", ",", "o" >>,
      << "\\", "t", ",", "D" >>,
      << "h", "t", "m", "l", ",", "o" >>,
      << "a" >>,
      << "b" >>,
      << "(" >> }

\* The fields of a generated main spec.
FieldSet ==
    { << >>,
      << "h", "t", "m", "l" >>,
      << "/" >>,
      << "o", "/" >>,
      << "a", "/", "o" >>,
      << "s", "o", "u", "r", "c", "e", "_", "r", "e", "l", "a", "t", "i", "v", "e" >>,
      << "d", "e", "f", "a", "u", "l", "t" >> }

RECURSIVE SeqsUpTo(_, _)
SeqsUpTo(S, n) ==
    IF n = 0 THEN { << >> }
    ELSE LET shorter == SeqsUpTo(S, n - 1) IN
         shorter \cup { Append(q, x) : q \in shorter, x \in S }

GeneratedParameters ==
    { JoinWith(parts, ":") : parts \in SeqsUpTo(PartSet, MaxParts) }
    \cup { JoinWith(fields, ",") : fields \in SeqsUpTo(FieldSet, MaxFields) }

\* The parameters of the requests run through the whole of Generate.
PipelineParameters ==
    { << >>,
      << "h", "t", "m", "l", ",", "o", ",", "s", "o", "u", "r", "c", "e", "_", "r", "e", "l", "a", "t", "i", "v", "e" >>,
      << "t", ",", "o", ",", "s", "o", "u", "r", "c", "e", "_", "r", "e", "l", "a", "t", "i", "v", "e", ":", "b" >>,
      << ":", "a", "/", "b", ",", "d" >>,
      << "j", "s", "o", "n", ",", "/", ",", "s", "o", "u", "r", "c", "e", "_", "r", "e", "l", "a", "t", "i", "v", "e" >> }

\* The names of the descriptors of a request.
FileNames ==
    { << "d" >>,
      << "a", "/", "b" >>,
      << "a", "/", "c" >>,
      << "b", "/", "a" >> }

(***************************************************************************)
(* Generate, one action per step.                                          *)
(***************************************************************************)
\* The state in which a run of Generate starts.
Fresh ==
    /\ pc = "start"
    /\ params = << >>
    /\ options = NilOptions
    /\ err = ""
    /\ result = << >>
    /\ customTemplate = ""
    /\ fdsGroup = << >>
    /\ pending = {}
    /\ resp = << >>

\* Requests for the parameter grammar: any generated parameter.
InitParse ==
    /\ parameter \in GeneratedParameters
    /\ protoFiles = << >>
    /\ run = 1
    /\ firstResp = << >>
    /\ Fresh

\* Requests for the whole pipeline.
Init ==
    /\ parameter \in PipelineParameters
    /\ protoFiles \in SeqsUpTo(FileNames, MaxFiles)
    /\ run = 1
    /\ firstResp = << >>
    /\ Fresh

\* options, err := ParseOptions(r)
Parse ==
    /\ pc = "start"
    /\ LET r == ParseOptions(parameter) IN
        /\ params' = SplitExclude(parameter).params
        /\ options' = r.options
        /\ err' = r.err
        /\ pc' = IF r.err = "" THEN "exclude" ELSE "failed"
    /\ UNCHANGED <<parameter, protoFiles, result, customTemplate, fdsGroup,
                   pending, resp, run, firstResp>>

\* result := excludeUnwantedProtos(protokit.ParseCodeGenRequest(r), ...)
Exclude ==
    /\ pc = "exclude"
    /\ result' = excludeUnwantedProtos(ParseCodeGenRequest(protoFiles),
                                       options.ExcludePatterns)
    /\ pc' = "template"
    /\ UNCHANGED <<parameter, protoFiles, params, options, err, customTemplate,
                   fdsGroup, pending, resp, run, firstResp>>

\* The template file, if any, is read.
ReadTemplate ==
    /\ pc = "template"
    /\ customTemplate' = IF options.TemplateFile # << >>
                         THEN FileData(options.TemplateFile) ELSE ""
    /\ pc' = "group"
    /\ UNCHANGED <<parameter, protoFiles, params, options, err, result, fdsGroup,
                   pending, resp, run, firstResp>>

\* ioutil.ReadFile returns an error.
ReadTemplateFails ==
    /\ pc = "template"
    /\ options.TemplateFile # << >>
    /\ err' = "ReadFileError"
    /\ pc' = "failed"
    /\ UNCHANGED <<parameter, protoFiles, params, options, result, customTemplate,
                   fdsGroup, pending, resp, run, firstResp>>

\* fdsGroup := groupProtosByDirectory(result, options.SourceRelative)
Group ==
    /\ pc = "group"
    /\ fdsGroup' = groupProtosByDirectory(result, options.SourceRelative)
    /\ pending' = DOMAIN fdsGroup'
    /\ pc' = "range"
    /\ UNCHANGED <<parameter, protoFiles, params, options, err, result,
                   customTemplate, resp, run, firstResp>>

\* One iteration of "for dir, fds := range fdsGroup": Go leaves the order in
\* which a map is ranged over unspecified, so any key not yet visited may
\* come next.
RangeBody ==
    /\ pc = "range"
    /\ \E dir \in pending :
        /\ resp' = Append(resp,
               [ Name    |-> Join(dir, options.OutputFile),
                 Content |-> RenderTemplate(options.Type, fdsGroup[dir],
                                            customTemplate) ])
        /\ pending' = pending \ { dir }
    /\ UNCHANGED <<parameter, protoFiles, pc, params, options, err, result,
                   customTemplate, fdsGroup, run, firstResp>>

\* RenderTemplate returns an error: Generate returns nil and the error.
RenderFails ==
    /\ pc = "range"
    /\ pending # {}
    /\ err' = "RenderError"
    /\ resp' = << >>
    /\ pc' = "failed"
    /\ UNCHANGED <<parameter, protoFiles, params, options, result, customTemplate,
                   fdsGroup, pending, run, firstResp>>

\* return resp, nil
Return ==
    /\ pc = "range"
    /\ pending = {}
    /\ pc' = "done"
    /\ UNCHANGED <<parameter, protoFiles, params, options, err, result,
                   customTemplate, fdsGroup, pending, resp, run, firstResp>>

\* Generate is run a second time on the same request.
Rerun ==
    /\ pc = "done"
    /\ run = 1
    /\ run' = 2
    /\ firstResp' = resp
    /\ pc' = "start"
    /\ params' = << >>
    /\ options' = NilOptions
    /\ err' = ""
    /\ result' = << >>
    /\ customTemplate' = ""
    /\ fdsGroup' = << >>
    /\ pending' = {}
    /\ resp' = << >>
    /\ UNCHANGED <<parameter, protoFiles>>

NextParse == Parse

Next ==
    \/ Parse
    \/ Exclude
    \/ ReadTemplate
    \/ ReadTemplateFails
    \/ Group
    \/ RangeBody
    \/ RenderFails
    \/ Return
    \/ Rerun

\* ParseOptions on every generated parameter.
SpecParse == InitParse /\ [][NextParse]_vars

\* Generate, twice, on every pipeline request.
Spec == Init /\ [][Next]_vars

(***************************************************************************)
(* Properties.                                                             *)
(***************************************************************************)
\* ParseOptions has returned.
Parsed == pc # "start"

\* ParseOptions has returned without an error.
ParsedOk == Parsed /\ err = ""

\* The source texts of a list of compiled patterns.
Exprs(patterns) == [ i \in 1..Len(patterns) |-> patterns[i].expr ]

\* The patterns a text of exclude patterns lists.
ListedPatterns(text) == IF text = << >> THEN << >> ELSE Split(text, ",")

IsLetter(c) == InRange(c, "a", "z") \/ InRange(c, "A", "Z")

\* The number of comma-separated fields of s.
FieldCount(s) == Cardinality({ i \in 1..Len(s) : s[i] = "," }) + 1

IsModeToken(f) == f = SourceRelativeToken \/ f = DefaultToken

\* C5: for the empty parameter ParseOptions returns no error and the default
\* configuration: HTML renderer, no template file, output index.html,
\* single-output grouping, no exclusion patterns.
C5_EmptyParameterDefaults ==
    (Parsed /\ parameter = << >>) =>
        /\ err = ""
        /\ options =
             [ Type            |-> "RenderTypeHTML",
               TemplateFile    |-> << >>,
               OutputFile      |-> << "i", "n", "d", "e", "x", ".",
                                      "h", "t", "m", "l" >>,
               ExcludePatterns |-> << >>,
               SourceRelative  |-> FALSE ]

C5_Witness == parameter = << >> /\ pc = "exclude"

\* The main spec has one of the two accepted shapes.
C4_ShapeOk ==
    \/ FieldCount(params) = 2
    \/ FieldCount(params) = 3 /\ IsModeToken(Split(params, ",")[3])

\* Some pattern listed after a colon of the parameter does not compile.
C4_PatternFails ==
    LET parts == Split(parameter, ":") IN
    \E k \in 2..Len(parts) :
        \E i \in 1..Len(ListedPatterns(parts[k])) :
            ~Compile(ListedPatterns(parts[k])[i]).ok

\* C4: for a non-empty main spec, ParseOptions succeeds exactly when the main
\* spec has 2 comma-separated fields, or 3 with the third "source_relative"
\* or "default"; every other shape fails with the invalid-parameter error
\* (the only other failure is a pattern that does not compile); on success
\* the grouping is per-source-directory exactly when the third field is
\* "source_relative".
C4_FieldCountAndMode ==
    (Parsed /\ params # << >>) =>
        /\ err \in { "", "InvalidParameter", "RegexpError" }
        /\ err = "RegexpError" => C4_PatternFails
        /\ err # "RegexpError" => (err = "" <=> C4_ShapeOk)
        /\ err = "" =>
             options.SourceRelative =
                 (FieldCount(params) = 3
                    /\ Split(params, ",")[3] = SourceRelativeToken)

C4_Witness ==
    /\ pc = "exclude"
    /\ FieldCount(params) = 3
    /\ options.SourceRelative

\* C8 (as claimed): after a successful ParseOptions the output file name is
\* a non-empty bare file name: not empty and without a path separator.
C8_OutputFileBareName ==
    ParsedOk =>
        /\ options.OutputFile # << >>
        /\ ~Contains(options.OutputFile, "/")

\* The first field of the main spec.
FirstField == Split(params, ",")[1]

\* C9 (as claimed): after a successful ParseOptions on a non-empty main spec,
\* a first field naming a built-in renderer selects it and leaves no template
\* file; any other first field is the template file and the renderer kind is
\* cleared.
C9_KindClearedForTemplate ==
    (ParsedOk /\ params # << >>) =>
        IF NewRenderType(FirstField) # ""
        THEN options.Type = NewRenderType(FirstField)
             /\ options.TemplateFile = << >>
        ELSE options.TemplateFile = FirstField
             /\ options.Type \notin { "RenderTypeDocBook", "RenderTypeHTML",
                                      "RenderTypeJSON", "RenderTypeMarkdown" }

\* C9 (amended): as claimed, except that with a first field that names no
\* built-in renderer the renderer kind stays the default, RenderTypeHTML.
C9_KindStaysDefaultForTemplate ==
    (ParsedOk /\ params # << >>) =>
        IF FirstField \in { << "d", "o", "c", "b", "o", "o", "k" >>,
                            << "h", "t", "m", "l" >>,
                            << "j", "s", "o", "n" >>,
                            << "m", "a", "r", "k", "d", "o", "w", "n" >> }
        THEN /\ options.TemplateFile = << >>
             /\ options.Type =
                  CASE FirstField[1] = "d" -> "RenderTypeDocBook"
                    [] FirstField[1] = "h" -> "RenderTypeHTML"
                    [] FirstField[1] = "j" -> "RenderTypeJSON"
                    [] FirstField[1] = "m" -> "RenderTypeMarkdown"
        ELSE /\ options.TemplateFile = FirstField
             /\ options.Type = "RenderTypeHTML"

C9_Witness ==
    /\ pc = "exclude"
    /\ params # << >>
    /\ options.TemplateFile # << >>
    /\ options.Type = "RenderTypeHTML"

\* The colon at position i of s is part of a path: a path separator follows
\* it and the single character before it, at the start of s or right after a
\* comma, is a letter A-Z or a-z.
PathLikeColon(s, i) ==
    /\ s[i] = ":"
    /\ i < Len(s) /\ s[i + 1] = "\\"
    /\ i >= 2 /\ IsLetter(s[i - 1])
    /\ i = 2 \/ s[i - 2] = ","

\* The first colon of s that is not part of a path, 0 when there is none.
TrueSeparator(s) ==
    LET seps == { i \in 1..Len(s) : s[i] = ":" /\ ~PathLikeColon(s, i) } IN
    IF seps = {} THEN 0 ELSE CHOOSE i \in seps : \A j \in seps : i <= j

\* C10 (as claimed): the main spec ParseOptions isolates ends right before
\* the first colon that is not part of a path, whatever the character before
\* a colon and however many path colons come first.
C10_SeparatorIsFirstNonPathColon ==
    Parsed =>
        params = IF TrueSeparator(parameter) = 0 THEN parameter
                 ELSE SubSeq(parameter, 1, TrueSeparator(parameter) - 1)

\* The text after the colon that ends the main spec ParseOptions isolated.
C3_TextAfterSeparator == SubSeq(parameter, Len(params) + 2, Len(parameter))

\* C3 (as claimed): everything after the colon that ends the main spec, up
\* to the end of the parameter, is the list of exclusion patterns: each is
\* compiled and kept, in order.
C3_AllTextAfterSeparatorKept ==
    ParsedOk =>
        Exprs(options.ExcludePatterns) = ListedPatterns(C3_TextAfterSeparator)

\* The parameter has the form <L>:\<rest>,<output>[,<mode>]:<patterns> of C2;
\* C2_Head is the text before the second colon, C2_Patterns the text after it.
C2_SecondColon ==
    LET later == { i \in 3..Len(parameter) : parameter[i] = ":" } IN
    IF later = {} THEN 0 ELSE CHOOSE i \in later : \A j \in later : i <= j

C2_Head == SubSeq(parameter, 1, C2_SecondColon - 1)

C2_Patterns == SubSeq(parameter, C2_SecondColon + 1, Len(parameter))

C2_Form ==
    /\ Len(parameter) >= 3
    /\ IsLetter(parameter[1]) /\ parameter[2] = ":" /\ parameter[3] = "\\"
    /\ C2_SecondColon # 0
    /\ \/ FieldCount(C2_Head) = 2
       \/ FieldCount(C2_Head) = 3 /\ IsModeToken(Split(C2_Head, ",")[3])
    /\ C2_Patterns # << >> /\ C2_Patterns[1] # "\\"
    /\ \A i \in 1..Len(Split(C2_Patterns, ",")) :
           Compile(Split(C2_Patterns, ",")[i]).ok

\* C2 (as claimed): on a parameter of that form ParseOptions succeeds with
\* template file <L>:\<rest>, output file the base name of <output>, and
\* exactly <patterns> as exclusion patterns.
C2_WindowsTemplatePath ==
    (Parsed /\ C2_Form) =>
        /\ err = ""
        /\ options.TemplateFile = Split(C2_Head, ",")[1]
        /\ options.OutputFile = Base(Split(C2_Head, ",")[2])
        /\ Exprs(options.ExcludePatterns) = Split(C2_Patterns, ",")

\* C1 (as claimed): a second run of Generate on the same request returns
\* the same response entries in the same order as the first.
C1_SecondRunSameResponse ==
    (run = 2 /\ pc = "done") => resp = firstResp

\* excludeUnwantedProtos has returned in the current run.
Excluded ==
    \/ pc \in { "template", "group", "range", "done" }
    \/ pc = "failed" /\ err \in { "ReadFileError", "RenderError" }

\* The name of d matches none of the patterns of the options.
MatchesNoPattern(d) ==
    \A i \in 1..Len(options.ExcludePatterns) :
        ~MatchString(options.ExcludePatterns[i].atoms, d.name)

\* C6: excludeUnwantedProtos returns exactly the descriptors whose name
\* matches none of the patterns, in input order; with no pattern it returns
\* its input.
C6_FilterKeepsExactlyUnmatched ==
    Excluded =>
        /\ result = SelectSeq(ParseCodeGenRequest(protoFiles), MatchesNoPattern)
        /\ options.ExcludePatterns = << >> =>
               result = ParseCodeGenRequest(protoFiles)

C6_Witness ==
    /\ pc = "template"
    /\ Len(options.ExcludePatterns) = 2
    /\ Len(result) = 2
    /\ Len(protoFiles) = 3
    /\ result[1].id = 2

\* groupProtosByDirectory has returned in the current run.
Grouped ==
    \/ pc \in { "range", "done" }
    \/ pc = "failed" /\ err = "RenderError"

\* The key C7 gives a descriptor: in per-source-directory mode the part of
\* its name up to and including the last slash, the sentinel "./" when the
\* name has no slash and in single-output mode.
C7_Key(d) ==
    IF options.SourceRelative /\ \E i \in 1..Len(d.name) : d.name[i] = "/"
    THEN CHOOSE k \in { SubSeq(d.name, 1, i) : i \in 1..Len(d.name) } :
             /\ k[Len(k)] = "/"
             /\ \A j \in (Len(k) + 1)..Len(d.name) : d.name[j] # "/"
    ELSE << ".", "/" >>

\* C7: groupProtosByDirectory partitions its input: every descriptor is in
\* exactly one group, the group of its key, no group is empty, and every
\* group keeps the input order.
C7_GroupsPartitionInput ==
    Grouped =>
        /\ \A i \in 1..Len(result) :
               Cardinality({ kj \in { <<k, j>> : k \in DOMAIN fdsGroup,
                                                j \in 1..Len(result) } :
                               /\ kj[2] <= Len(fdsGroup[kj[1]])
                               /\ fdsGroup[kj[1]][kj[2]] = result[i] }) = 1
        /\ \A k \in DOMAIN fdsGroup :
               /\ Len(fdsGroup[k]) > 0
               /\ \A j \in 1..Len(fdsGroup[k]) :
                      /\ \E i \in 1..Len(result) : result[i] = fdsGroup[k][j]
                      /\ C7_Key(fdsGroup[k][j]) = k
                      /\ \A j2 \in (j + 1)..Len(fdsGroup[k]) :
                             fdsGroup[k][j].id < fdsGroup[k][j2].id
        /\ ~options.SourceRelative => DOMAIN fdsGroup \subseteq { << ".", "/" >> }

C7_Witness ==
    /\ pc = "range"
    /\ options.SourceRelative
    /\ << ".", "/" >> \in DOMAIN fdsGroup
    /\ \E k \in DOMAIN fdsGroup : k # << ".", "/" >> /\ Len(fdsGroup[k]) = 2

====
